---------------------------- MODULE Spec2Model ----------------------------
(***************************************************************************)
(* A model of the PolyMarket arbitrage bot (strategy 1): the Detector      *)
(* (utils.calculate_profit_margin, detector.ArbitrageDetector), the        *)
(* Executor (executor.ArbitrageExecutor), the gateways                     *)
(* (paper_trading.PaperTradingClient, polymarket_client.PolyMarketClient   *)
(* and an injected client that may raise) and the scan loop                *)
(* (bot.ArbitrageBot).                                                     *)
(*                                                                         *)
(* Numbers.  The program computes on Python floats.  The model computes    *)
(* on exact rationals [n, d] in lowest terms with d > 0: every price,      *)
(* rate, balance and size of the model is such a rational, and +, -, *, /, *)
(* <, min and max are the exact operations.  0.52 is R(52, 100).           *)
(***************************************************************************)
EXTENDS Integers, Sequences, FiniteSets, TLC

VARIABLES
    cfg,              \* the configuration: client kind, credentials present,
                      \* min_profit_pct, fee_rate, max_position_size, max_slippage_pct,
                      \* scan_interval
    components,       \* ArbitrageBot.client, .detector, .executor: TRUE when the
                      \* attribute holds an object, FALSE when it is None
    pc,               \* where the bot's thread of control is
    running,          \* ArbitrageBot.running
    stats,            \* ArbitrageBot.stats
    snapshots,        \* what log_stats has emitted, oldest first
    signals,          \* shutdown signals delivered so far
    cycles,           \* loop iterations started since the initial state (under
                      \* SpecDrain: the iterations in which markets were listed)
    balance,          \* the gateway's balance (PaperTradingClient.balance)
    orders,           \* the orders the gateway has accepted (PaperTradingClient.orders)
    executed_trades,  \* ArbitrageExecutor.executed_trades
    markets,          \* scan_for_arbitrage's local: the last get_markets result
    opportunities,    \* scan_for_arbitrage's local: the last scan_markets result
    ex,               \* execute_arbitrage's locals and its return value
    calls,            \* the gateway calls of the current execute_arbitrage, in order
    entry,            \* balance, trade count and order count when execute_arbitrage
                      \* was entered
    fault,            \* the call that raised in the latest cycle, "none" when none did
    trade_log,        \* logs/trades.json: the trades log_trade has written, oldest first
    sleeping,         \* the seconds of the time.sleep the loop is in, None when awake
    dMarkets,         \* Detector harness: the markets fed so far
    dRun,             \* Detector harness: detect_arbitrage's run on the last market
    dOut,             \* Detector harness: scan_markets(dMarkets)
    dAgain,           \* Detector harness: a second scan_markets on the same list
    dDetector,        \* Detector harness: the ArbitrageDetector's attributes
    dGateway,         \* Detector harness: the calls the detector made on its client
    dSize             \* Executor harness: the last calculate_position_size call

vars == <<cfg, components, pc, running, stats, snapshots, signals, cycles, balance, orders,
          executed_trades, markets, opportunities, ex, calls, entry, fault, trade_log,
          sleeping, dMarkets, dRun, dOut, dAgain, dDetector, dGateway, dSize>>

botVars == <<components, pc, running, stats, snapshots, signals, cycles, balance, orders,
             executed_trades, markets, opportunities, ex, calls, entry, fault, trade_log,
             sleeping>>

detVars == <<dMarkets, dRun, dOut, dAgain, dDetector, dGateway, dSize>>

-----------------------------------------------------------------------------
(* Exact rational arithmetic standing for the float arithmetic of the code *)

\* An operator's argument is evaluated wherever the operator's body names it.
\* The operations below bind each argument once (a \in {x}) and compute on
\* the bound value, so that a nested expression costs one evaluation of each
\* of its parts.
Abs(x) == IF x < 0 THEN -x ELSE x

gcd[a \in Nat, b \in Nat] == IF b = 0 THEN a ELSE gcd[b, a % b]

GCD(a, b) == gcd[a, b]

R(n, d) ==
    CHOOSE r \in {[n |-> (s * n) \div g, d |-> (s * d) \div g] :
                     s \in {IF d < 0 THEN -1 ELSE 1}, g \in {GCD(Abs(n), Abs(d))}} : TRUE

RInt(k) == [n |-> k, d |-> 1]

Zero == RInt(0)

One == RInt(1)

RAdd(x, y) ==
    CHOOSE r \in {R(a.n * (b.d \div GCD(a.d, b.d)) + b.n * (a.d \div GCD(a.d, b.d)),
                    (a.d \div GCD(a.d, b.d)) * b.d) : a \in {x}, b \in {y}} : TRUE

RNeg(x) == CHOOSE r \in {[n |-> -a.n, d |-> a.d] : a \in {x}} : TRUE

RSub(x, y) == RAdd(x, RNeg(y))

RMul(x, y) ==
    CHOOSE r \in {R((a.n \div GCD(Abs(a.n), b.d)) * (b.n \div GCD(Abs(b.n), a.d)),
                    (a.d \div GCD(Abs(b.n), a.d)) * (b.d \div GCD(Abs(a.n), b.d))) :
                     a \in {x}, b \in {y}} : TRUE

RInv(x) == CHOOSE r \in {R(a.d, a.n) : a \in {x}} : TRUE

RDiv(x, y) == RMul(x, RInv(y))

RLt(x, y) ==
    \E a \in {x}, b \in {y} :
        a.n * (b.d \div GCD(a.d, b.d)) < b.n * (a.d \div GCD(a.d, b.d))

RLe(x, y) == ~RLt(y, x)

RMin(x, y) == CHOOSE r \in {IF RLt(b, a) THEN b ELSE a : a \in {x}, b \in {y}} : TRUE

RMax(x, y) == CHOOSE r \in {IF RLt(a, b) THEN b ELSE a : a \in {x}, b \in {y}} : TRUE

-----------------------------------------------------------------------------
(* Python values *)

\* Python's None.
None == [is_none |-> TRUE]

\* dict.get(key, default) on a market dictionary (a record whose DOMAIN is
\* the set of keys present).
Get(dict, key, default) == IF key \in DOMAIN dict THEN dict[key] ELSE default

-----------------------------------------------------------------------------
(* shared/python/utils.py *)

\* min_profit_threshold = 0.01 (utils.py:46).
min_profit_threshold_None == Zero

min_profit_threshold == R(1, 100)

calculate_profit_margin_NoFees(yes_price, no_price, fee_rate) ==
    LET total_cost == RAdd(yes_price, no_price)
    IN  IF RLt(total_cost, RSub(One, min_profit_threshold))
        THEN <<TRUE, RSub(One, total_cost)>>
        ELSE <<FALSE, Zero>>

calculate_profit_margin_Inclusive(yes_price, no_price, fee_rate) ==
    LET total_cost == RAdd(yes_price, no_price)
        fees == RMul(total_cost, fee_rate)
        total_cost_with_fees == RAdd(total_cost, fees)
    IN  IF RLe(total_cost_with_fees, RSub(One, min_profit_threshold))
        THEN <<TRUE, RSub(One, total_cost_with_fees)>>
        ELSE <<FALSE, Zero>>

calculate_profit_margin_GrossMargin(yes_price, no_price, fee_rate) ==
    LET total_cost == RAdd(yes_price, no_price)
        fees == RMul(total_cost, fee_rate)
        total_cost_with_fees == RAdd(total_cost, fees)
    IN  IF RLt(total_cost_with_fees, RSub(One, min_profit_threshold))
        THEN <<TRUE, RSub(One, total_cost)>>
        ELSE <<FALSE, Zero>>

\* Returns <<is_profitable, profit_margin>>.
calculate_profit_margin(yes_price, no_price, fee_rate) ==
    LET total_cost == RAdd(yes_price, no_price)
        fees == RMul(total_cost, fee_rate)
        total_cost_with_fees == RAdd(total_cost, fees)
    IN  IF RLt(total_cost_with_fees, RSub(One, min_profit_threshold))
        THEN <<TRUE, RSub(One, total_cost_with_fees)>>
        ELSE <<FALSE, Zero>>

-----------------------------------------------------------------------------
(* strategies/strategy_1_arbitrage/python/detector.py *)

\* The guard of detector.py:49: the prices a market is rejected on before
\* calculate_profit_margin is called.
PricesRejected_NegativeOnly(yes_price, no_price) ==
    RLt(yes_price, Zero) \/ RLt(no_price, Zero)

PricesRejected(yes_price, no_price) ==
    RLe(yes_price, Zero) \/ RLe(no_price, Zero)

\* detect_arbitrage, with the calls it makes: [ret |-> the opportunity or
\* None, margin_called |-> whether calculate_profit_margin was called].
DetectArbitrageRun(market, min_profit_pct, fee_rate) ==
    LET yes_price == Get(market, "yes_price", Zero)
        no_price == Get(market, "no_price", Zero)
        pm == calculate_profit_margin(yes_price, no_price, fee_rate)
        is_profitable == pm[1]
        profit_margin == pm[2]
        total_cost == RAdd(yes_price, no_price)
    IN  IF PricesRejected(yes_price, no_price)
        THEN [ret |-> None, margin_called |-> FALSE]
        ELSE IF ~is_profitable
        THEN [ret |-> None, margin_called |-> TRUE]
        ELSE IF RLt(profit_margin, min_profit_pct)
        THEN [ret |-> None, margin_called |-> TRUE]
        ELSE [ret |-> [market_id |-> Get(market, "id", 0),
                       yes_price |-> yes_price,
                       no_price |-> no_price,
                       total_cost |-> total_cost,
                       profit_margin |-> profit_margin,
                       profit_pct |-> RMul(profit_margin, RInt(100)),
                       shares_per_dollar |-> RDiv(One, total_cost),
                       profit_per_dollar |-> profit_margin,
                       is_arbitrage |-> TRUE],
              margin_called |-> TRUE]

detect_arbitrage(market, min_profit_pct, fee_rate) ==
    DetectArbitrageRun(market, min_profit_pct, fee_rate).ret

\* list.sort(key = profit_margin, reverse = True): a stable sort, so an
\* element goes after every element whose key is greater or equal.
RECURSIVE InsertDesc_BeforeEquals(_, _)
InsertDesc_BeforeEquals(sorted, o) ==
    IF sorted = <<>> THEN <<o>>
    ELSE IF RLe(Head(sorted).profit_margin, o.profit_margin)
         THEN <<o>> \o sorted
         ELSE <<Head(sorted)>> \o InsertDesc_BeforeEquals(Tail(sorted), o)

RECURSIVE InsertDesc(_, _)
InsertDesc(sorted, o) ==
    IF sorted = <<>> THEN <<o>>
    ELSE IF RLt(Head(sorted).profit_margin, o.profit_margin)
         THEN <<o>> \o sorted
         ELSE <<Head(sorted)>> \o InsertDesc(Tail(sorted), o)

RECURSIVE SortDesc(_)
SortDesc(s) ==
    IF s = <<>> THEN <<>>
    ELSE InsertDesc(SortDesc(SubSeq(s, 1, Len(s) - 1)), s[Len(s)])

RECURSIVE Detected_Deduplicated(_, _, _)
Detected_Deduplicated(market_list, min_profit_pct, fee_rate) ==
    IF market_list = <<>> THEN <<>>
    ELSE LET opportunity == detect_arbitrage(Head(market_list), min_profit_pct, fee_rate)
             rest == Detected_Deduplicated(Tail(market_list), min_profit_pct, fee_rate)
         IN  IF opportunity # None /\ \A i \in 1..Len(rest) : rest[i] # opportunity
             THEN <<opportunity>> \o rest
             ELSE rest

RECURSIVE Detected(_, _, _)
Detected(market_list, min_profit_pct, fee_rate) ==
    IF market_list = <<>> THEN <<>>
    ELSE LET opportunity == detect_arbitrage(Head(market_list), min_profit_pct, fee_rate)
             rest == Detected(Tail(market_list), min_profit_pct, fee_rate)
         IN  IF opportunity # None THEN <<opportunity>> \o rest ELSE rest

scan_markets(market_list, min_profit_pct, fee_rate) ==
    CHOOSE sorted \in {SortDesc(detected) :
                         detected \in {Detected(market_list, min_profit_pct, fee_rate)}} : TRUE

\* A call of scan_markets on an ArbitrageDetector, with everything the call
\* could touch: what it returns, the list it was given and the detector's
\* attributes as they are after the call, and the calls it made on
\* self.client.  The code reads the list, market.get(...),
\* self.min_profit_pct and self.fee_rate; it assigns to none of them and
\* never uses self.client.
ScanMarketsRun_RaisesThreshold(market_list, detector) ==
    LET ret == scan_markets(market_list, detector.min_profit_pct, detector.fee_rate)
    IN  [ret |-> ret,
         market_list |-> market_list,
         detector |-> IF ret = <<>> THEN detector
                      ELSE [detector EXCEPT !.min_profit_pct = R(1, 1)],
         gateway_calls |-> <<>>]

ScanMarketsRun(market_list, detector) ==
    [ret |-> scan_markets(market_list, detector.min_profit_pct, detector.fee_rate),
     market_list |-> market_list,
     detector |-> detector,
     gateway_calls |-> <<>>]

-----------------------------------------------------------------------------
(* The state after ArbitrageBot.__init__ (bot.py:51-75) and the Detector   *)
(* harness before any market was fed                                       *)

NoLocals ==
    [opportunity |-> None, balance |-> None, position_size |-> None,
     shares |-> None, yes_order |-> None, no_order |-> None, result |-> None]

NoEntry == [balance |-> Zero, trades |-> 0, orders |-> 0]

Constructed ==
    /\ pc = "constructed"
    /\ components = [client |-> FALSE, detector |-> FALSE, executor |-> FALSE]
    /\ running = TRUE
    /\ stats = [scans |-> 0, opportunities_found |-> 0, trades_executed |-> 0,
                total_profit |-> Zero]
    /\ snapshots = <<>>
    /\ signals = 0
    /\ cycles = 0
    /\ orders = <<>>
    /\ executed_trades = <<>>
    /\ markets = <<>>
    /\ opportunities = <<>>
    /\ ex = NoLocals
    /\ calls = <<>>
    /\ entry = NoEntry
    /\ fault = "none"
    /\ trade_log = <<>>
    /\ sleeping = None

\* ArbitrageDetector.__init__ (detector.py:31-33).
NewDetector == [min_profit_pct |-> cfg.min_profit_pct, fee_rate |-> cfg.fee_rate]

NotScannedAgain == [ran |-> FALSE, out |-> <<>>]

DetectorIdle ==
    /\ dMarkets = <<>>
    /\ dRun = [ret |-> None, margin_called |-> FALSE]
    /\ dOut = <<>>
    /\ dAgain = NotScannedAgain
    /\ dDetector = NewDetector
    /\ dGateway = <<>>
    /\ dSize = None

-----------------------------------------------------------------------------
(* The Detector on its own: detect_arbitrage and scan_markets applied to   *)
(* markets drawn from a grid of prices, under each detector configuration  *)

MaxList == 2

GridYes ==
    {R(-1, 10), Zero, R(495, 1000), R(50, 100), R(505, 1000), R(52, 100), R(60, 100),
     R(96, 100)}

GridNo == {R(-1, 10), Zero, R(1, 100), R(40, 100), R(44, 100), R(46, 100), R(495, 1000)}

GridFeeRates == {Zero, R(2, 100), R(10, 100)}

GridMinProfit == {Zero, R(1, 100), R(5, 100)}

\* A market dictionary; a price key may be absent.
GridMarkets ==
    {[id |-> 1, yes_price |-> y, no_price |-> n] : y \in GridYes, n \in GridNo}
    \cup {[id |-> 1, yes_price |-> y] : y \in GridYes}
    \cup {[id |-> 1, no_price |-> n] : n \in GridNo}
    \cup {[id |-> 1]}

InitDetect ==
    /\ cfg \in {[client_kind |-> "paper", credentials |-> TRUE,
                  min_profit_pct |-> mp, fee_rate |-> fr,
                  max_position_size |-> RInt(1000), max_slippage_pct |-> R(2, 100),
                  scan_interval |-> R(1, 10)] :
                     mp \in GridMinProfit, fr \in GridFeeRates}
    /\ balance = RInt(10000)
    /\ Constructed
    /\ DetectorIdle

\* The harness calls detect_arbitrage(market) and scan_markets on the
\* markets fed so far.
Feed(market) ==
    /\ Len(dMarkets) < MaxList
    /\ LET run == ScanMarketsRun(Append(dMarkets, market), dDetector)
       IN  /\ dRun' = DetectArbitrageRun(market, dDetector.min_profit_pct,
                                         dDetector.fee_rate)
           /\ dOut' = run.ret
           /\ dMarkets' = run.market_list
           /\ dDetector' = run.detector
           /\ dGateway' = dGateway \o run.gateway_calls
    /\ dAgain' = NotScannedAgain
    /\ UNCHANGED <<cfg, botVars, dSize>>

\* The harness calls scan_markets once more on the list it scanned last.
Rescan ==
    /\ Len(dMarkets) > 0
    /\ ~dAgain.ran
    /\ LET run == ScanMarketsRun(dMarkets, dDetector)
       IN  /\ dAgain' = [ran |-> TRUE, out |-> run.ret]
           /\ dMarkets' = run.market_list
           /\ dDetector' = run.detector
           /\ dGateway' = dGateway \o run.gateway_calls
    /\ UNCHANGED <<cfg, botVars, dRun, dOut, dSize>>

NextDetect ==
    \/ \E market \in GridMarkets : Feed(market)
    \/ Rescan

SpecDetect == InitDetect /\ [][NextDetect]_vars

-----------------------------------------------------------------------------
(* strategies/strategy_1_arbitrage/python/executor.py: position sizing     *)

calculate_position_size_NoFloor(opportunity, available_capital, max_position_size) ==
    LET base_size == RMin(max_position_size, RMul(available_capital, R(1, 10)))
        profit_margin == opportunity.profit_margin
        scaled_size == RMul(base_size, RAdd(One, RMul(profit_margin, RInt(10))))
    IN  RMin(RMin(scaled_size, max_position_size),
             RMul(available_capital, R(2, 10)))

calculate_position_size_ScalesDown(opportunity, available_capital, max_position_size) ==
    LET base_size == RMin(max_position_size, RMul(available_capital, R(1, 10)))
        profit_margin == opportunity.profit_margin
        scaled_size == RDiv(base_size, RAdd(One, RMul(profit_margin, RInt(10))))
        position_size == RMin(RMin(scaled_size, max_position_size),
                              RMul(available_capital, R(2, 10)))
    IN  RMax(position_size, RInt(100))

calculate_position_size(opportunity, available_capital, max_position_size) ==
    LET base_size == RMin(max_position_size, RMul(available_capital, R(1, 10)))
        profit_margin == opportunity.profit_margin
        scaled_size == RMul(base_size, RAdd(One, RMul(profit_margin, RInt(10))))
        position_size == RMin(RMin(scaled_size, max_position_size),
                              RMul(available_capital, R(2, 10)))
    IN  RMax(position_size, RInt(100))

\* The Executor's sizing on its own: calculate_position_size applied to
\* opportunities, capitals and maximum position sizes drawn from a grid.
GridMargins == {Zero, R(1, 100), R(2, 100), R(5, 100), R(10, 100), R(50, 100)}

GridCapitals ==
    {Zero, RInt(40), RInt(200), RInt(499), RInt(500), RInt(501), RInt(1000),
     RInt(5000), RInt(10000), RInt(100000)}

GridMaxSizes == {RInt(50), RInt(100), RInt(150), RInt(1000), RInt(5000)}

InitSize ==
    /\ cfg = [client_kind |-> "paper", credentials |-> TRUE,
              min_profit_pct |-> R(1, 100), fee_rate |-> R(2, 100),
              max_position_size |-> RInt(1000), max_slippage_pct |-> R(2, 100),
              scan_interval |-> R(1, 10)]
    /\ balance = RInt(10000)
    /\ Constructed
    /\ DetectorIdle

\* The harness builds an executor with max_position_size and calls
\* calculate_position_size(opportunity, available_capital).
Size(profit_margin, available_capital, max_position_size) ==
    /\ dSize' = [profit_margin |-> profit_margin,
                 available_capital |-> available_capital,
                 max_position_size |-> max_position_size,
                 position_size |->
                     calculate_position_size([profit_margin |-> profit_margin],
                                             available_capital, max_position_size)]
    /\ UNCHANGED <<cfg, botVars, dMarkets, dRun, dOut, dAgain, dDetector, dGateway>>

NextSize ==
    \E profit_margin \in GridMargins, available_capital \in GridCapitals,
       max_position_size \in GridMaxSizes :
        Size(profit_margin, available_capital, max_position_size)

SpecSize == InitSize /\ [][NextSize]_vars

-----------------------------------------------------------------------------
(* The gateways.  cfg.client_kind is "paper" (PaperTradingClient), "live"  *)
(* (PolyMarketClient, whose methods catch every exception of the venue     *)
(* client) or "mock" (an injected client with the same four operations,    *)
(* each of which may also raise).                                          *)

MaxCycles == 2

MaxSignals == 1

MaxMarkets == 2

\* What a call raised instead of returning.
Raised == [raised |-> TRUE]

\* The markets a poll may list: 0.50/0.44 and 0.95/0.01 are arbitrage at fee
\* 0.02, 0.52/0.46 is not.
BotMarkets ==
    {[id |-> 1, yes_price |-> R(50, 100), no_price |-> R(44, 100)],
     [id |-> 2, yes_price |-> R(95, 100), no_price |-> R(1, 100)],
     [id |-> 3, yes_price |-> R(52, 100), no_price |-> R(46, 100)]}

MarketLists ==
    UNION {[1..k -> BotMarkets] : k \in 0..MaxMarkets}

\* PAPER_TRADING_BALANCE (bot.py:89).
InitialBalances == {RInt(50), RInt(100), RInt(150), RInt(10000)}

\* What an injected client's get_balance may answer.
MockBalances == {RInt(50), RInt(10000)}

\* get_markets(active=True): the lists it may return.  PaperTradingClient
\* without a real client returns [].
GetMarketsOutcomes ==
    IF cfg.client_kind = "paper" /\ ~cfg.credentials THEN {<<>>} ELSE MarketLists

\* Whether get_markets may raise: both shipped clients catch every exception
\* and return [].
GetMarketsMayRaise == cfg.client_kind \notin {"paper", "live"}

\* get_balance(): PaperTradingClient answers its balance, PolyMarketClient
\* its placeholder 1000.0.
GetBalanceOutcomes ==
    CASE cfg.client_kind = "paper" -> {balance}
      [] cfg.client_kind = "live" -> {RInt(1000)}
      [] OTHER -> MockBalances \cup {Raised}

\* place_order(market_id, side, price, size): "order", "none" or "raise".
\* PaperTradingClient refuses an order that costs more than the balance;
\* PolyMarketClient turns a price outside [0, 1] and every venue error into
\* None.
PlaceOrderOutcomes_NoFundsCheck(price, size) ==
    CASE cfg.client_kind = "paper" -> {"order"}
      [] cfg.client_kind = "live" ->
            IF RLt(price, Zero) \/ RLt(One, price) THEN {"none"} ELSE {"order", "none"}
      [] OTHER -> {"order", "none", "raise"}

PlaceOrderOutcomes(price, size) ==
    CASE cfg.client_kind = "paper" ->
            IF RLt(balance, RMul(price, size)) THEN {"none"} ELSE {"order"}
      [] cfg.client_kind = "live" ->
            IF RLt(price, Zero) \/ RLt(One, price) THEN {"none"} ELSE {"order", "none"}
      [] OTHER -> {"order", "none", "raise"}

\* The order a successful place_order returns (paper_trading.py:125-134).
NewOrder_IdFromMarket(market_id, side, price, size) ==
    [id |-> market_id, market_id |-> market_id, side |-> side, price |-> price,
     size |-> size, cost |-> RMul(price, size), status |-> "FILLED"]

NewOrder(market_id, side, price, size) ==
    [id |-> Len(orders), market_id |-> market_id, side |-> side, price |-> price,
     size |-> size, cost |-> RMul(price, size), status |-> "FILLED"]

\* The gateway's state after it accepted `order`: PaperTradingClient appends
\* it and debits its cost.
Accepted_NoDebit(order) ==
    /\ orders' = Append(orders, order)
    /\ balance' = balance

Accepted(order) ==
    /\ orders' = Append(orders, order)
    /\ balance' = IF cfg.client_kind = "paper" THEN RSub(balance, order.cost) ELSE balance

\* cancel_order(order_id): "True", "False" or "raise".  PaperTradingClient
\* logs and returns True; PolyMarketClient returns False on a venue error.
CancelOrderOutcomes ==
    CASE cfg.client_kind = "paper" -> {"True"}
      [] cfg.client_kind = "live" -> {"True", "False"}
      [] OTHER -> {"True", "False", "raise"}

-----------------------------------------------------------------------------
(* strategies/strategy_1_arbitrage/python/executor.py: execute_arbitrage,  *)
(* one action per gateway call                                             *)

\* except Exception (executor.py:152-154): the error is logged and
\* execute_arbitrage returns None.
ExecuteExcept_Reraise ==
    /\ ex' = ex
    /\ pc' = "loop_except"

ExecuteExcept ==
    /\ ex' = [ex EXCEPT !.result = None]
    /\ pc' = "loop_result"

\* return None (executor.py:82, 123).
ReturnNone_ReportsLeg ==
    /\ ex' = [ex EXCEPT !.result = IF ex.yes_order # None THEN ex.yes_order ELSE ex.no_order]
    /\ pc' = "loop_result"

ReturnNone ==
    /\ ex' = [ex EXCEPT !.result = None]
    /\ pc' = "loop_result"

\* if balance < 100 (executor.py:80).
InsufficientBalance_Below10(b) == RLt(b, RInt(10))

InsufficientBalance(b) == RLt(b, RInt(100))

\* balance = self.client.get_balance(); the balance check; position_size and
\* shares (executor.py:78-89).
ExecGetBalance ==
    /\ pc = "exec_get_balance"
    /\ \E b \in GetBalanceOutcomes :
          /\ calls' = Append(calls, [op |-> "get_balance", ret |-> b])
          /\ IF b = Raised
             THEN ExecuteExcept /\ fault' = "get_balance"
             ELSE /\ fault' = fault
                  /\ IF InsufficientBalance(b)
                     THEN /\ ex' = [ex EXCEPT !.balance = b, !.result = None]
                          /\ pc' = "loop_result"
                     ELSE LET position_size ==
                                  calculate_position_size(ex.opportunity, b, cfg.max_position_size)
                              shares == RDiv(position_size, ex.opportunity.total_cost)
                          IN  /\ ex' = [ex EXCEPT !.balance = b,
                                                  !.position_size = position_size,
                                                  !.shares = shares]
                              /\ pc' = "exec_place_yes"
    /\ UNCHANGED <<cfg, trade_log, sleeping, components, running, stats, snapshots, signals,
                   cycles, balance, orders, executed_trades, markets, opportunities, entry,
                   detVars>>

\* The price of a leg: the quoted price inflated by max_slippage_pct
\* (executor.py:103, 111).
LegPrice_NoSlippage(quoted) == quoted

LegPrice_PercentSlippage(quoted) ==
    RMul(quoted, RAdd(One, RMul(cfg.max_slippage_pct, RInt(100))))

LegPrice(quoted) == RMul(quoted, RAdd(One, cfg.max_slippage_pct))

\* What execute_arbitrage does once the YES leg's place_order has returned
\* yes_order: it goes on to place the NO leg (executor.py:108); the orders
\* are only looked at after both calls (116).
AfterYesLeg_ShortCircuit(yes_order) ==
    IF yes_order = None THEN "loop_result" ELSE "exec_place_no"

AfterYesLeg(yes_order) == "exec_place_no"

\* yes_order = self.client.place_order(...) (executor.py:100-106).
ExecPlaceYes ==
    /\ pc = "exec_place_yes"
    /\ LET price == LegPrice(ex.opportunity.yes_price)
           order == NewOrder(ex.opportunity.market_id, "BUY", price, ex.shares)
           call == [op |-> "place_order", market_id |-> ex.opportunity.market_id,
                    side |-> "BUY", price |-> price, size |-> ex.shares]
       IN  \E outcome \in PlaceOrderOutcomes(price, ex.shares) :
              CASE outcome = "order" ->
                      /\ Accepted(order)
                      /\ calls' = Append(calls, call @@ [ret |-> order])
                      /\ ex' = [ex EXCEPT !.yes_order = order]
                      /\ pc' = AfterYesLeg(order)
                      /\ fault' = fault
                [] outcome = "none" ->
                      /\ calls' = Append(calls, call @@ [ret |-> None])
                      /\ ex' = [ex EXCEPT !.yes_order = None]
                      /\ pc' = AfterYesLeg(None)
                      /\ UNCHANGED <<orders, balance, fault>>
                [] OTHER ->
                      /\ calls' = Append(calls, call @@ [ret |-> Raised])
                      /\ ExecuteExcept
                      /\ fault' = "place_yes"
                      /\ UNCHANGED <<orders, balance>>
    /\ UNCHANGED <<cfg, trade_log, sleeping, components, running, stats, snapshots, signals,
                   cycles, executed_trades, markets, opportunities, entry, detVars>>

\* no_order = self.client.place_order(...) (executor.py:108-114).
ExecPlaceNo ==
    /\ pc = "exec_place_no"
    /\ LET price == LegPrice(ex.opportunity.no_price)
           order == NewOrder(ex.opportunity.market_id, "BUY", price, ex.shares)
           call == [op |-> "place_order", market_id |-> ex.opportunity.market_id,
                    side |-> "BUY", price |-> price, size |-> ex.shares]
       IN  \E outcome \in PlaceOrderOutcomes(price, ex.shares) :
              CASE outcome = "order" ->
                      /\ Accepted(order)
                      /\ calls' = Append(calls, call @@ [ret |-> order])
                      /\ ex' = [ex EXCEPT !.no_order = order]
                      /\ pc' = "exec_check"
                      /\ fault' = fault
                [] outcome = "none" ->
                      /\ calls' = Append(calls, call @@ [ret |-> None])
                      /\ ex' = [ex EXCEPT !.no_order = None]
                      /\ pc' = "exec_check"
                      /\ UNCHANGED <<orders, balance, fault>>
                [] OTHER ->
                      /\ calls' = Append(calls, call @@ [ret |-> Raised])
                      /\ ExecuteExcept
                      /\ fault' = "place_no"
                      /\ UNCHANGED <<orders, balance>>
    /\ UNCHANGED <<cfg, trade_log, sleeping, components, running, stats, snapshots, signals,
                   cycles, executed_trades, markets, opportunities, entry, detVars>>

\* The record of a completed trade (executor.py:126-140).
TradeResult_SwappedIds ==
    [type |-> "arbitrage",
     market_id |-> ex.opportunity.market_id,
     yes_order_id |-> ex.no_order.id,
     no_order_id |-> ex.yes_order.id,
     yes_price |-> ex.opportunity.yes_price,
     no_price |-> ex.opportunity.no_price,
     shares |-> ex.shares,
     position_size |-> ex.position_size,
     expected_profit |-> RMul(ex.position_size, ex.opportunity.profit_margin),
     profit_margin |-> ex.opportunity.profit_margin,
     status |-> "executed"]

TradeResult ==
    [type |-> "arbitrage",
     market_id |-> ex.opportunity.market_id,
     yes_order_id |-> ex.yes_order.id,
     no_order_id |-> ex.no_order.id,
     yes_price |-> ex.opportunity.yes_price,
     no_price |-> ex.opportunity.no_price,
     shares |-> ex.shares,
     position_size |-> ex.position_size,
     expected_profit |-> RMul(ex.position_size, ex.opportunity.profit_margin),
     profit_margin |-> ex.opportunity.profit_margin,
     status |-> "executed"]

\* Which leg execute_arbitrage goes on to cancel when a leg is missing
\* (executor.py:119-122): "yes", "no" or "nothing".
FirstCancel_NoCompensation == "nothing"

FirstCancel ==
    IF ex.yes_order # None THEN "yes"
    ELSE IF ex.no_order # None THEN "no"
    ELSE "nothing"

\* log_trade(trade_data), shared/python/utils.py:66-92: the trades of
\* logs/trades.json are read, trade_data is appended and the file is written
\* back.  written is FALSE when the file cannot be read (no permission, not
\* JSON) or cannot be written: the file then keeps what it held.
log_trade(log, trade_data, written) ==
    IF written THEN Append(log, trade_data) ELSE log

\* Whether log_trade raises into its caller: except Exception as e logs the
\* failure and returns (utils.py:91-92).
LogTradeRaises_Unguarded(written) == ~written

LogTradeRaises(written) == FALSE

\* if not yes_order or not no_order: ... ; else the trade is appended to
\* executed_trades, logged with log_trade and returned (executor.py:116-150).
ExecCheck ==
    /\ pc = "exec_check"
    /\ IF ex.yes_order = None \/ ex.no_order = None
       THEN /\ CASE FirstCancel = "yes" -> pc' = "exec_cancel_yes" /\ ex' = ex
                 [] FirstCancel = "no" -> pc' = "exec_cancel_no" /\ ex' = ex
                 [] OTHER -> ReturnNone
            /\ executed_trades' = executed_trades
            /\ trade_log' = trade_log
       ELSE \E written \in BOOLEAN :
               /\ executed_trades' = Append(executed_trades, TradeResult)
               /\ trade_log' = log_trade(trade_log, TradeResult, written)
               /\ IF LogTradeRaises(written)
                  THEN ExecuteExcept
                  ELSE /\ ex' = [ex EXCEPT !.result = TradeResult]
                       /\ pc' = "loop_result"
    /\ UNCHANGED <<cfg, sleeping, components, running, stats, snapshots, signals, cycles,
                   balance, orders, markets, opportunities, calls, entry, fault, detVars>>

\* self.client.cancel_order(yes_order.get('id')) (executor.py:119-120).
ExecCancelYes ==
    /\ pc = "exec_cancel_yes"
    /\ \E outcome \in CancelOrderOutcomes :
          /\ calls' = Append(calls, [op |-> "cancel_order", order_id |-> ex.yes_order.id,
                                     ret |-> outcome])
          /\ IF outcome = "raise"
             THEN ExecuteExcept /\ fault' = "cancel_yes"
             ELSE /\ fault' = fault
                  /\ IF ex.no_order # None
                     THEN pc' = "exec_cancel_no" /\ ex' = ex
                     ELSE ReturnNone
    /\ UNCHANGED <<cfg, trade_log, sleeping, components, running, stats, snapshots, signals,
                   cycles, balance, orders, executed_trades, markets, opportunities, entry,
                   detVars>>

\* self.client.cancel_order(no_order.get('id')) (executor.py:121-123).
ExecCancelNo ==
    /\ pc = "exec_cancel_no"
    /\ \E outcome \in CancelOrderOutcomes :
          /\ calls' = Append(calls, [op |-> "cancel_order", order_id |-> ex.no_order.id,
                                     ret |-> outcome])
          /\ IF outcome = "raise"
             THEN ExecuteExcept /\ fault' = "cancel_no"
             ELSE fault' = fault /\ ReturnNone
    /\ UNCHANGED <<cfg, trade_log, sleeping, components, running, stats, snapshots, signals,
                   cycles, balance, orders, executed_trades, markets, opportunities, entry,
                   detVars>>

-----------------------------------------------------------------------------
(* strategies/strategy_1_arbitrage/python/bot.py: run, scan_for_arbitrage, *)
(* shutdown                                                                *)

StatsEvery == 100

\* The bot is configured from the environment; the detector and the executor
\* it builds keep their default fee_rate and max_slippage_pct of 0.02.
Init ==
    /\ cfg \in {[client_kind |-> k, credentials |-> c,
                 min_profit_pct |-> R(1, 100), fee_rate |-> R(2, 100),
                 max_position_size |-> RInt(1000), max_slippage_pct |-> R(2, 100),
                 scan_interval |-> R(1, 10)] :
                    k \in {"paper", "live", "mock"}, c \in BOOLEAN}
    /\ cfg.client_kind = "mock" => cfg.credentials
    /\ balance \in IF cfg.client_kind = "paper" THEN InitialBalances ELSE {RInt(1000)}
    /\ Constructed
    /\ DetectorIdle

\* run(): the signal handlers are installed and initialize() builds the
\* client, the detector and the executor and reads the balance.
\* PolyMarketClient() raises without credentials and initialize re-raises;
\* an injected client's get_balance may raise.
Initialize ==
    /\ pc = "constructed"
    /\ \E ok \in BOOLEAN :
          /\ ok => ~(cfg.client_kind = "live" /\ ~cfg.credentials)
          /\ ~ok => cfg.client_kind = "mock" \/ (cfg.client_kind = "live" /\ ~cfg.credentials)
          /\ pc' = IF ok THEN "loop_top" ELSE "init_failed"
    /\ components' = IF cfg.client_kind = "live" /\ ~cfg.credentials
                     THEN components
                     ELSE [client |-> TRUE, detector |-> TRUE, executor |-> TRUE]
    /\ UNCHANGED <<cfg, trade_log, sleeping, running, stats, snapshots, signals, cycles,
                   balance, orders, executed_trades, markets, opportunities, ex, calls,
                   entry, fault, detVars>>

\* while self.running (bot.py:127).
LoopCondition_IgnoresFlag == TRUE

LoopCondition == running

LoopTop ==
    /\ pc = "loop_top"
    /\ IF LoopCondition
       THEN /\ cycles < MaxCycles
            /\ cycles' = cycles + 1
            /\ pc' = "get_markets"
       ELSE /\ cycles' = cycles
            /\ pc' = "stopped"
    /\ UNCHANGED <<cfg, trade_log, sleeping, components, running, stats, snapshots, signals,
                   balance, orders, executed_trades, markets, opportunities, ex, calls,
                   entry, fault, detVars>>

\* await asyncio.sleep(5) after an empty market list (bot.py:134).
EmptyBackoff_ScanInterval == cfg.scan_interval

EmptyBackoff == RInt(5)

\* await asyncio.sleep(5) after an exception (bot.py:175).
ErrorBackoff == RInt(5)

\* markets = self.client.get_markets(active=True); if not markets: the
\* 5-second backoff (bot.py:130-135).
GetMarkets ==
    /\ pc = "get_markets"
    /\ \/ \E listed \in GetMarketsOutcomes :
             /\ markets' = listed
             /\ pc' = IF listed = <<>> THEN "backoff_empty" ELSE "scan"
             /\ sleeping' = IF listed = <<>> THEN EmptyBackoff ELSE sleeping
             /\ fault' = "none"
       \/ /\ GetMarketsMayRaise
          /\ markets' = markets
          /\ pc' = "loop_except"
          /\ sleeping' = sleeping
          /\ fault' = "get_markets"
    /\ UNCHANGED <<cfg, trade_log, components, running, stats, snapshots, signals, cycles,
                   balance, orders, executed_trades, opportunities, ex, calls, entry,
                   detVars>>

\* best_opportunity = opportunities[0] (bot.py:147).
BestOpportunity_Last(found) == found[Len(found)]

BestOpportunity(found) == found[1]

\* opportunities = self.detector.scan_markets(markets); scans += 1; with
\* opportunities, opportunities_found += len and execute_arbitrage is entered
\* with the first one (bot.py:138-150).
ScanMarkets ==
    /\ pc = "scan"
    /\ LET found == scan_markets(markets, cfg.min_profit_pct, cfg.fee_rate)
       IN  /\ opportunities' = found
           /\ IF found # <<>>
              THEN /\ stats' = [stats EXCEPT !.scans = @ + 1,
                                             !.opportunities_found = @ + Len(found)]
                   /\ ex' = [NoLocals EXCEPT !.opportunity = BestOpportunity(found)]
                   /\ calls' = <<>>
                   /\ entry' = [balance |-> balance, trades |-> Len(executed_trades),
                                 orders |-> Len(orders)]
                   /\ pc' = "exec_get_balance"
              ELSE /\ stats' = [stats EXCEPT !.scans = @ + 1]
                   /\ pc' = "end_cycle"
                   /\ UNCHANGED <<ex, calls, entry>>
    /\ UNCHANGED <<cfg, trade_log, sleeping, components, running, snapshots, signals,
                   cycles, balance, orders, executed_trades, markets, fault, detVars>>

\* if result: trades_executed += 1; total_profit += expected_profit
\* (bot.py:152-154).
CountTrade_Always(result) ==
    [stats EXCEPT !.trades_executed = @ + 1]

CountTrade_PerLeg(result) ==
    IF result # None
    THEN [stats EXCEPT !.trades_executed = @ + 2,
                       !.total_profit = RAdd(@, result.expected_profit)]
    ELSE stats

CountTrade(result) ==
    IF result # None
    THEN [stats EXCEPT !.trades_executed = @ + 1,
                       !.total_profit = RAdd(@, result.expected_profit)]
    ELSE stats

\* execute_arbitrage has returned: its frame is gone, and with it the record
\* of the calls it made.
LoopResult ==
    /\ pc = "loop_result"
    /\ stats' = CountTrade(ex.result)
    /\ ex' = NoLocals
    /\ calls' = <<>>
    /\ entry' = NoEntry
    /\ pc' = "end_cycle"
    /\ UNCHANGED <<cfg, trade_log, sleeping, components, running, snapshots, signals,
                   cycles, balance, orders, executed_trades, markets, opportunities, fault,
                   detVars>>

\* if self.stats['scans'] % 100 == 0 (bot.py:162).
StatsDue_EveryCycle == TRUE

StatsDue == stats.scans % StatsEvery = 0

\* if scans % 100 == 0: log_stats(); then asyncio.sleep(scan_interval)
\* (bot.py:162-166).
EndCycle ==
    /\ pc = "end_cycle"
    /\ snapshots' = IF StatsDue THEN Append(snapshots, stats) ELSE snapshots
    /\ pc' = "sleep"
    /\ sleeping' = cfg.scan_interval
    /\ UNCHANGED <<cfg, trade_log, components, running, stats, signals, cycles, balance,
                   orders, executed_trades, markets, opportunities, ex, calls, entry, fault,
                   detVars>>

\* except Exception: the error is logged, then asyncio.sleep(5)
\* (bot.py:173-175).
LoopExcept_Terminates ==
    /\ pc = "loop_except"
    /\ pc' = "stopped"
    /\ UNCHANGED <<cfg, trade_log, sleeping, components, running, stats, snapshots, signals,
                   cycles, balance, orders, executed_trades, markets, opportunities, ex,
                   calls, entry, fault, detVars>>

LoopExcept ==
    /\ pc = "loop_except"
    /\ pc' = "backoff_error"
    /\ sleeping' = ErrorBackoff
    /\ UNCHANGED <<cfg, trade_log, components, running, stats, snapshots, signals, cycles,
                   balance, orders, executed_trades, markets, opportunities, ex, calls,
                   entry, fault, detVars>>

\* A sleep returns and the loop tests self.running again.
Wake ==
    /\ pc \in {"sleep", "backoff_empty", "backoff_error"}
    /\ pc' = "loop_top"
    /\ sleeping' = None
    /\ UNCHANGED <<cfg, trade_log, components, running, stats, snapshots, signals, cycles,
                   balance, orders, executed_trades, markets, opportunities, ex, calls,
                   entry, fault, detVars>>

\* shutdown(signum, frame), the handler of SIGINT and SIGTERM: it runs
\* between any two steps of the loop once run() has installed it
\* (bot.py:199-203).
Shutdown_OnlyLogs ==
    /\ pc \notin {"constructed", "init_failed", "stopped"}
    /\ signals < MaxSignals
    /\ signals' = signals + 1
    /\ running' = running
    /\ snapshots' = Append(snapshots, stats)
    /\ UNCHANGED <<cfg, trade_log, sleeping, components, pc, stats, cycles, balance, orders,
                   executed_trades, markets, opportunities, ex, calls, entry, fault,
                   detVars>>

Shutdown ==
    /\ pc \notin {"constructed", "init_failed", "stopped"}
    /\ signals < MaxSignals
    /\ signals' = signals + 1
    /\ running' = FALSE
    /\ snapshots' = Append(snapshots, stats)
    /\ UNCHANGED <<cfg, trade_log, sleeping, components, pc, stats, cycles, balance, orders,
                   executed_trades, markets, opportunities, ex, calls, entry, fault,
                   detVars>>

Next ==
    \/ Initialize
    \/ LoopTop
    \/ GetMarkets
    \/ ScanMarkets
    \/ ExecGetBalance
    \/ ExecPlaceYes
    \/ ExecPlaceNo
    \/ ExecCheck
    \/ ExecCancelYes
    \/ ExecCancelNo
    \/ LoopResult
    \/ EndCycle
    \/ LoopExcept
    \/ Wake
    \/ Shutdown

Spec == Init /\ [][Next]_vars

\* A step of the bot's own thread: every action but the delivery of a signal.
\* A gateway call returns or raises and a sleep returns, so the thread takes
\* its next step whenever it has one.
Thread ==
    \/ Initialize
    \/ LoopTop
    \/ GetMarkets
    \/ ScanMarkets
    \/ ExecGetBalance
    \/ ExecPlaceYes
    \/ ExecPlaceNo
    \/ ExecCheck
    \/ ExecCancelYes
    \/ ExecCancelNo
    \/ LoopResult
    \/ EndCycle
    \/ LoopExcept
    \/ Wake

SpecLive == Init /\ [][Next]_vars /\ WF_vars(Thread)

-----------------------------------------------------------------------------
(* Properties of the Detector, checked under SpecDetect                    *)

Fed == Len(dMarkets) > 0

LastMarket == dMarkets[Len(dMarkets)]

YesOf(market) == Get(market, "yes_price", Zero)

NoOf(market) == Get(market, "no_price", Zero)

\* yesPrice + noPrice + (yesPrice + noPrice) * feeRate, as the claims write it.
CostWithFees(market) ==
    RAdd(RAdd(YesOf(market), NoOf(market)),
         RMul(RAdd(YesOf(market), NoOf(market)), cfg.fee_rate))

HasPrices(market, yes_price, no_price) ==
    /\ DOMAIN market = {"id", "yes_price", "no_price"}
    /\ market.yes_price = yes_price
    /\ market.no_price = no_price

C7_NonPositivePricesExcluded ==
    /\ Fed /\ (RLe(YesOf(LastMarket), Zero) \/ RLe(NoOf(LastMarket), Zero))
          => dRun = [ret |-> None, margin_called |-> FALSE]
    /\ \A i \in 1..Len(dOut) :
          RLt(Zero, dOut[i].yes_price) /\ RLt(Zero, dOut[i].no_price)
    /\ Len(dOut) <= Cardinality({i \in 1..Len(dMarkets) :
          RLt(Zero, YesOf(dMarkets[i])) /\ RLt(Zero, NoOf(dMarkets[i]))})

\* C7 witness: a market without a yes_price (and a no_price cheap enough to
\* look profitable) was fed after a market that did yield an opportunity; it
\* was rejected and the scan output holds the other market only.
C7_Witness ==
    /\ Len(dMarkets) = 2
    /\ DOMAIN LastMarket = {"id", "no_price"}
    /\ LastMarket.no_price = R(40, 100)
    /\ dRun = [ret |-> None, margin_called |-> FALSE]
    /\ Len(dOut) = 1

C9_TestsExpectOpportunity ==
    Fed /\ HasPrices(LastMarket, R(52, 100), R(46, 100)) /\ cfg.fee_rate = R(2, 100)
        /\ cfg.min_profit_pct = R(1, 100)
        => /\ dRun.ret # None
           /\ dRun.ret.is_arbitrage
           /\ RLt(R(1, 100), dRun.ret.profit_margin)
           /\ calculate_profit_margin(R(52, 100), R(46, 100), R(2, 100))[1]
           /\ RLt(Zero, calculate_profit_margin(R(52, 100), R(46, 100), R(2, 100))[2])

-----------------------------------------------------------------------------
(* Properties of the Executor and the scan loop, checked under Spec        *)

\* execute_arbitrage has returned to scan_for_arbitrage.
Returned == pc = "loop_result"

IsOrder(ret) == ret # None /\ ret # Raised

\* The place_order calls of the current execute_arbitrage: positions 2 (the
\* YES leg) and 3 (the NO leg) of its call log.
BothLegsAnswered == Len(calls) >= 3 /\ calls[3].ret # Raised

\* The positions of the call log holding a cancel_order call.
Cancels == {i \in 1..Len(calls) : calls[i].op = "cancel_order"}

NoTradeRecorded == ex.result = None /\ Len(executed_trades) = entry.trades

\* C1: when execute_arbitrage passed the balance check and exactly one of its
\* two place_order calls returned an order while the other returned None,
\* then by the time it returns cancel_order was called with the id of the leg
\* that succeeded, it returns None and executed_trades has no new record.
C1_FailedLegCompensated ==
    Returned /\ BothLegsAnswered =>
        /\ IsOrder(calls[2].ret) /\ calls[3].ret = None =>
              /\ \E i \in Cancels : i > 3 /\ calls[i].order_id = calls[2].ret.id
              /\ NoTradeRecorded
        /\ calls[2].ret = None /\ IsOrder(calls[3].ret) =>
              /\ \E i \in Cancels : i > 3 /\ calls[i].order_id = calls[3].ret.id
              /\ NoTradeRecorded

\* C1 witness: the YES leg was refused and the NO leg placed; execute_arbitrage
\* has returned after cancelling the NO order.
C1_Witness ==
    /\ Returned /\ BothLegsAnswered
    /\ calls[2].ret = None /\ IsOrder(calls[3].ret)
    /\ Len(calls) = 4
    /\ calls[4].op = "cancel_order" /\ calls[4].order_id = calls[3].ret.id

\* C2: with the paper-trading gateway, when execute_arbitrage ends with a
\* leg's placement having failed, the gateway balance equals the balance
\* before execute_arbitrage and no trade is recorded.
C2_PaperBalanceRestored ==
    /\ cfg.client_kind = "paper"
    /\ Returned
    /\ \E i \in 1..Len(calls) : calls[i].op = "place_order" /\ calls[i].ret = None
    => balance = entry.balance /\ NoTradeRecorded

\* C3: when the gateway answers a balance below 100, execute_arbitrage returns
\* None having made no place_order and no cancel_order call, and the gateway
\* balance, the gateway's orders and executed_trades are as they were.
C3_InsufficientBalanceNoEffect ==
    /\ Returned
    /\ Len(calls) >= 1
    /\ calls[1].ret # Raised
    /\ RLt(calls[1].ret, RInt(100))
    => /\ Len(calls) = 1
       /\ NoTradeRecorded
       /\ balance = entry.balance
       /\ Len(orders) = entry.orders

\* C3 witness: the paper gateway held 50 and execute_arbitrage returned after
\* its balance query.
C3_Witness ==
    /\ Returned
    /\ cfg.client_kind = "paper"
    /\ calls = <<[op |-> "get_balance", ret |-> RInt(50)]>>
    /\ balance = RInt(50)

\* C4: an exception raised by get_balance, place_order or cancel_order inside
\* execute_arbitrage never reaches the loop's exception handler:
\* execute_arbitrage returns None with no new trade record, and the loop's
\* next step leaves trades_executed, total_profit and running as they are and
\* goes on to the end of the cycle.
C4_FaultsContained ==
    /\ [](/\ pc = "loop_except" => fault = "get_markets"
          /\ Returned /\ fault # "none" => NoTradeRecorded)
    /\ [][Returned /\ fault # "none" /\ pc' # pc =>
             /\ stats'.trades_executed = stats.trades_executed
             /\ stats'.total_profit = stats.total_profit
             /\ running' = running
             /\ pc' = "end_cycle"]_vars

\* C4 witness: the NO leg's place_order raised after the YES order was placed;
\* the loop is running and has reached the end of that cycle without a trade.
C4_Witness ==
    /\ pc = "end_cycle"
    /\ fault = "place_no"
    /\ running
    /\ Len(orders) = 1
    /\ stats.trades_executed = 0

\* The cancel_order calls of the current execute_arbitrage that returned False
\* or raised.
FailedCancels == {i \in Cancels : calls[i].ret \in {"False", "raise"}}

\* C5: when a leg's placement failed and the compensating cancel_order
\* returned False or raised, execute_arbitrage still returns None and records
\* no trade.
C5_CancelFailureSameOutcome ==
    FailedCancels # {} /\ pc \notin {"exec_cancel_yes", "exec_cancel_no"} =>
        /\ NoTradeRecorded
        /\ pc = "loop_except" => fault = "get_markets"

\* C5 witness: the cancel of the surviving leg returned False and
\* execute_arbitrage has returned.
C5_Witness ==
    /\ Returned
    /\ Len(calls) = 4
    /\ calls[4].op = "cancel_order"
    /\ calls[4].ret = "False"
    /\ ex.result = None

-----------------------------------------------------------------------------
(* Properties of scan_markets, checked under SpecDetect                    *)

\* The opportunities of the scanned list in the order of their markets.
InInputOrder == Detected(dMarkets, dDetector.min_profit_pct, dDetector.fee_rate)

\* The elements of a list of opportunities whose profit_margin is `margin`.
WithMargin(list, margin) ==
    SelectSeq(list, LAMBDA o : o.profit_margin = margin)

\* C11: the list scan_markets returns is ordered by profit_margin,
\* non-increasing, and the opportunities of equal profit_margin are in it in
\* the order their markets had in the input.
C11_SortedDescendingStable ==
    /\ \A i \in 1..Len(dOut) : \A j \in 1..Len(dOut) :
          i < j => RLe(dOut[j].profit_margin, dOut[i].profit_margin)
    /\ Len(dOut) = Len(InInputOrder)
    /\ \A i \in 1..Len(dOut) :
          WithMargin(dOut, dOut[i].profit_margin)
             = WithMargin(InInputOrder, dOut[i].profit_margin)

\* C11 witness: two different markets of equal profit_margin, 0.52/0.44
\* first and 0.50/0.46 second, came out in that order.
C11_Witness ==
    /\ Len(dOut) = 2
    /\ dOut[1].profit_margin = dOut[2].profit_margin
    /\ dOut[1].yes_price = R(52, 100)
    /\ dOut[2].yes_price = R(50, 100)
    /\ YesOf(dMarkets[1]) = R(52, 100)

\* C11 second witness: the later market has the greater profit_margin and
\* came out first.
C11_WitnessReordered ==
    /\ Len(dOut) = 2
    /\ RLt(dOut[2].profit_margin, dOut[1].profit_margin)
    /\ dOut[1].yes_price = YesOf(dMarkets[2])
    /\ dOut[1].no_price = NoOf(dMarkets[2])
    /\ dOut[2].yes_price # dOut[1].yes_price

-----------------------------------------------------------------------------
(* Properties of calculate_position_size, checked under SpecSize           *)

Sized == dSize # None

Floor == RInt(100)

CapitalCap == RMul(dSize.available_capital, R(2, 10))

\* C13: calculate_position_size returns at least 100; at most
\* max_position_size when that is at least 100; at most 20% of the available
\* capital when that is at least 100; and exactly 100 when max_position_size
\* or 20% of the capital is below 100.
C13_PositionSizeBounds ==
    Sized =>
        /\ RLe(Floor, dSize.position_size)
        /\ RLe(Floor, dSize.max_position_size) =>
              RLe(dSize.position_size, dSize.max_position_size)
        /\ RLe(Floor, CapitalCap) => RLe(dSize.position_size, CapitalCap)
        /\ RLt(dSize.max_position_size, Floor) \/ RLt(CapitalCap, Floor) =>
              dSize.position_size = Floor

\* C13 witness: with 200 of capital, 20% of which is 40, the position size
\* is 100.
C13_Witness ==
    /\ Sized
    /\ dSize.available_capital = RInt(200)
    /\ dSize.max_position_size = RInt(1000)
    /\ CapitalCap = RInt(40)
    /\ dSize.position_size = RInt(100)

\* C13 second witness: a size strictly between the floor and both caps
\* (capital 5000, margin 0.02: 500 * 1.2 = 600).
C13_WitnessScaled ==
    /\ Sized
    /\ dSize.available_capital = RInt(5000)
    /\ dSize.max_position_size = RInt(1000)
    /\ dSize.profit_margin = R(2, 100)
    /\ dSize.position_size = RInt(600)

-----------------------------------------------------------------------------
(* Properties of the whole bot, checked under Spec                         *)

RECURSIVE SpentOnOrders(_)
SpentOnOrders(placed) ==
    IF placed = <<>> THEN Zero
    ELSE RAdd(Head(placed).cost, SpentOnOrders(Tail(placed)))

\* The first cycle's scan, and the execution it led to, are over and the
\* gateway had listed only `market`.
FirstCycleDoneOn(market) ==
    /\ pc = "end_cycle"
    /\ cycles = 1
    /\ markets = <<market>>

\* C14: with the paper gateway started at 10000 and the single listed market
\* 0.52/0.46, the first cycle ends with exactly one trade record,
\* trades_executed = 1 and total_profit = position_size * profit_margin.
C14_EndToEnd052_046 ==
    /\ cfg.client_kind = "paper"
    /\ RAdd(balance, SpentOnOrders(orders)) = RInt(10000)
    /\ FirstCycleDoneOn([id |-> 3, yes_price |-> R(52, 100), no_price |-> R(46, 100)])
    => /\ Len(executed_trades) = 1
       /\ stats.trades_executed = 1
       /\ stats.total_profit = RMul(executed_trades[1].position_size,
                                    executed_trades[1].profit_margin)

\* What the same cycle does on the market 0.50/0.44, which the detector does
\* accept: one trade record, counted once, with the expected profit of its
\* position.
C14_EndToEnd050_044 ==
    /\ cfg.client_kind = "paper"
    /\ RAdd(balance, SpentOnOrders(orders)) = RInt(10000)
    /\ FirstCycleDoneOn([id |-> 1, yes_price |-> R(50, 100), no_price |-> R(44, 100)])
    => /\ Len(executed_trades) = 1
       /\ stats.trades_executed = 1
       /\ stats.total_profit = RMul(executed_trades[1].position_size,
                                    executed_trades[1].profit_margin)

\* The loop has exited: scan_for_arbitrage returned.
Stopped == pc = "stopped"

\* The positions of the thread inside a cycle of the loop.
InCycle ==
    pc \in {"get_markets", "scan", "exec_get_balance", "exec_place_yes",
            "exec_place_no", "exec_check", "exec_cancel_yes", "exec_cancel_no",
            "loop_result", "end_cycle", "loop_except"}

\* C15: the loop exits only from its `while self.running` test, with the flag
\* cleared by a delivered signal; an exception that reaches the loop's handler
\* is followed by the 5-second backoff, then by the loop test, which starts
\* another cycle while the flag is set.
C15_FaultsNeverStopTheLoop ==
    /\ [](Stopped => signals > 0 /\ ~running)
    /\ [][pc' = "stopped" /\ pc # "stopped" => pc = "loop_top" /\ ~running]_vars
    /\ [][pc = "loop_except" /\ pc' # pc => pc' = "backoff_error"]_vars
    /\ [][pc = "backoff_error" /\ pc' # pc => pc' = "loop_top"]_vars
    /\ [][pc = "loop_top" /\ running /\ pc' # pc => pc' = "get_markets"]_vars
    /\ [][pc' = "init_failed" => pc \in {"constructed", "init_failed"}]_vars

\* C15 witness: get_markets raised in the first cycle, no signal was
\* delivered, and the loop has started its second cycle.
C15_Witness ==
    /\ pc = "get_markets"
    /\ cycles = 2
    /\ fault = "get_markets"
    /\ running
    /\ signals = 0

\* C16: the delivery of a signal changes only the flag and the snapshots: the
\* thread stays where it is with its execution state intact, and from inside
\* a cycle it always has its next step, flag cleared or not; once a signal
\* has been delivered no cycle starts and get_markets is not entered again.
C16_ShutdownDrains ==
    /\ [][signals' # signals =>
             /\ ~running'
             /\ UNCHANGED <<pc, stats, balance, orders, executed_trades, ex, calls,
                            cycles, markets, opportunities>>]_vars
    /\ [](~running /\ InCycle => ENABLED Thread)
    /\ [][~running /\ pc # "loop_top" /\ pc' # pc => pc' # "stopped"]_vars
    /\ [][signals > 0 => cycles' = cycles]_vars
    /\ [][signals > 0 /\ pc # "get_markets" => pc' # "get_markets"]_vars

\* C16 witness: the signal was delivered while execute_arbitrage was in
\* flight (the snapshot it logged has the cycle's scan and no trade); both
\* legs were placed, the trade was counted, and the loop stopped without
\* another cycle.
C16_Witness ==
    /\ Stopped
    /\ cycles = 1
    /\ signals = 1
    /\ Len(snapshots) = 1
    /\ snapshots[1].scans = 1
    /\ snapshots[1].trades_executed = 0
    /\ stats.trades_executed = 1
    /\ Len(executed_trades) = 1
    /\ Len(orders) = 2

\* C17: once a signal has been delivered the loop eventually exits.
C17_ShutdownEventuallyStops ==
    signals > 0 ~> Stopped

\* C17 witness: the loop has exited after a signal, its last cycle having
\* ended in the post-exception backoff.
C17_Witness ==
    /\ Stopped
    /\ signals > 0
    /\ fault = "get_markets"

\* C17 second witness: the loop has exited after a signal, its last cycle
\* having ended in the empty-markets backoff.
C17_WitnessEmpty ==
    /\ Stopped
    /\ signals > 0
    /\ cycles = 1
    /\ markets = <<>>
    /\ fault = "none"

\* C18: when the loop has exited, the last snapshot logged holds the counters
\* the bot holds.
C18_FinalSnapshotCurrent ==
    Stopped =>
        /\ snapshots # <<>>
        /\ snapshots[Len(snapshots)] = stats

\* C19: without credentials the bot never gets past initialize, in either
\* mode: the loop is not entered and no gateway call is made.
C19_InitFailureFatal ==
    ~cfg.credentials => pc \in {"constructed", "init_failed"}

\* What does hold of C19: in live mode without credentials initialize fails
\* and the loop is never entered.
C19_LiveInitFailureFatal ==
    cfg.client_kind = "live" /\ ~cfg.credentials =>
        /\ pc \in {"constructed", "init_failed"}
        /\ components = [client |-> FALSE, detector |-> FALSE, executor |-> FALSE]
        /\ cycles = 0

\* C20: right after construction in paper-trading mode the bot has a detector
\* and an executor.
C20_ComponentsAfterConstruction ==
    pc = "constructed" /\ cfg.client_kind = "paper" =>
        components.detector /\ components.executor

-----------------------------------------------------------------------------
(* The trade log, the counters and the calls of an execution (Spec)         *)

\* Both place_order calls of the current execute_arbitrage returned an order.
BothLegsPlaced ==
    /\ Len(calls) >= 3
    /\ IsOrder(calls[2].ret)
    /\ IsOrder(calls[3].ret)

\* C21: when both legs were placed, execute_arbitrage returns the trade record
\* whether or not log_trade could append it to logs/trades.json: the record
\* is the newest entry of executed_trades, and the loop's next step counts
\* the trade.
C21_LogFailureKeepsTrade ==
    /\ [](Returned /\ BothLegsPlaced =>
             /\ ex.result # None
             /\ ex.result.status = "executed"
             /\ Len(executed_trades) = entry.trades + 1
             /\ executed_trades[Len(executed_trades)] = ex.result)
    /\ [][Returned /\ BothLegsPlaced /\ pc' # pc =>
             /\ pc' = "end_cycle"
             /\ stats'.trades_executed = stats.trades_executed + 1
             /\ stats'.total_profit = RAdd(stats.total_profit, ex.result.expected_profit)]_vars

\* C21 witness: the first execution placed both legs, log_trade wrote nothing,
\* and the loop has counted the trade.
C21_Witness ==
    /\ pc = "end_cycle"
    /\ trade_log = <<>>
    /\ Len(executed_trades) = 1
    /\ stats.trades_executed = 1
    /\ stats.total_profit = executed_trades[1].expected_profit

\* C21 witness: execute_arbitrage has returned the record of a trade that
\* log_trade could not write.
C21_WitnessReturned ==
    /\ Returned
    /\ BothLegsPlaced
    /\ ex.result # None
    /\ trade_log = <<>>

\* The loop is between two cycles: at the loop test, in one of its sleeps, or
\* past its exit.
BetweenCycles == pc \in {"loop_top", "sleep", "backoff_empty", "backoff_error", "stopped"}

\* The sum of expected_profit over a list of trade records.
RECURSIVE SumExpectedProfit(_)
SumExpectedProfit(trades) ==
    IF trades = <<>> THEN Zero
    ELSE RAdd(SumExpectedProfit(SubSeq(trades, 1, Len(trades) - 1)),
              trades[Len(trades)].expected_profit)

\* C22: between cycles trades_executed is the number of records in
\* executed_trades and total_profit is the sum of their expected_profit.
C22_CountersMatchHistory ==
    BetweenCycles =>
        /\ stats.trades_executed = Len(executed_trades)
        /\ stats.total_profit = SumExpectedProfit(executed_trades)

\* C22 witness: two cycles have each executed a trade and the loop sleeps
\* after the second.
C22_Witness ==
    /\ pc = "sleep"
    /\ Len(executed_trades) = 2
    /\ stats.trades_executed = 2
    /\ stats.total_profit # Zero
    /\ stats.total_profit # executed_trades[1].expected_profit

\* C22 witness: a cycle whose execution returned None has ended after a cycle
\* that traded.
C22_WitnessNoTrade ==
    /\ pc = "sleep"
    /\ stats.opportunities_found = 2
    /\ Len(executed_trades) = 1
    /\ stats.trades_executed = 1

\* The positions of the call log holding a place_order call that returned an
\* order.
Placed == {i \in 1..Len(calls) : calls[i].op = "place_order" /\ IsOrder(calls[i].ret)}

C23_AnsweredLegsCancelled ==
    Returned /\ ex.result = None /\ BothLegsAnswered =>
        \A i \in Placed : \E j \in Cancels : j > i /\ calls[j].order_id = calls[i].ret.id

\* execute_arbitrage is running or has just returned.
Executing ==
    pc \in {"exec_get_balance", "exec_place_yes", "exec_place_no", "exec_check",
            "exec_cancel_yes", "exec_cancel_no", "loop_result"}

\* C24: execute_arbitrage is entered only from a scan that found
\* opportunities, once per cycle, with the first opportunity of the sorted
\* list, whose profit_margin no other opportunity of the list exceeds; the
\* scan adds the number of opportunities found to opportunities_found, and no
\* step adds more than 1 to trades_executed.
C24_BestOpportunityOncePerCycle ==
    /\ [](Executing =>
             /\ opportunities # <<>>
             /\ ex.opportunity = opportunities[1]
             /\ \A i \in 1..Len(opportunities) :
                   RLe(opportunities[i].profit_margin, ex.opportunity.profit_margin))
    /\ [][/\ pc' = "exec_get_balance" /\ pc # "exec_get_balance" =>
                /\ pc = "scan"
                /\ opportunities' = scan_markets(markets, cfg.min_profit_pct, cfg.fee_rate)
                /\ opportunities' # <<>>
          /\ pc = "scan" /\ pc' # pc =>
                /\ stats'.opportunities_found =
                       stats.opportunities_found + Len(opportunities')
                /\ stats'.scans = stats.scans + 1
                /\ opportunities' = <<>> => pc' = "end_cycle"
          /\ pc' = "scan" /\ pc # "scan" => pc = "get_markets" /\ cycles' = cycles
          /\ pc' = "get_markets" /\ pc # "get_markets" => cycles' = cycles + 1
          /\ pc # "scan" => stats'.opportunities_found = stats.opportunities_found
          /\ stats'.trades_executed \in {stats.trades_executed, stats.trades_executed + 1}
          /\ stats'.trades_executed # stats.trades_executed => pc = "loop_result"
          /\ pc = "loop_result" /\ pc' # pc => pc' = "end_cycle"]_vars

\* C24 witness: the scan found two opportunities of different margins,
\* execute_arbitrage was given the one with the larger margin, which came
\* second in the market list, and the cycle counted two opportunities and one
\* trade.
C24_Witness ==
    /\ pc = "loop_result"
    /\ Len(opportunities) = 2
    /\ RLt(opportunities[2].profit_margin, opportunities[1].profit_margin)
    /\ ex.opportunity.market_id = markets[2].id
    /\ ex.result # None
    /\ stats.opportunities_found = 2
    /\ stats.scans = 1

-----------------------------------------------------------------------------
(* The empty market list and the periodic snapshot                         *)

\* C25: a cycle whose get_markets returns no market changes no counter, runs
\* neither the detector nor the executor (no scan result, no gateway call, no
\* order, no trade record), logs no snapshot and leaves running as it is; it
\* sleeps 5 seconds, not scan_interval, and then the loop is back at its test.
C25_EmptyListCycle ==
    /\ [][pc = "get_markets" /\ pc' \notin {pc, "loop_except"} /\ markets' = <<>> =>
             /\ pc' = "backoff_empty"
             /\ sleeping' = RInt(5)
             /\ sleeping' # cfg.scan_interval
             /\ UNCHANGED <<stats, snapshots, running, opportunities, ex, calls, orders,
                            balance, executed_trades, trade_log>>]_vars
    /\ [][pc = "backoff_empty" /\ pc' # pc =>
             /\ pc' = "loop_top"
             /\ UNCHANGED <<stats, snapshots, running, opportunities, ex, calls, orders,
                            balance, executed_trades, trade_log>>]_vars
    /\ [](pc = "backoff_empty" => sleeping = RInt(5) /\ markets = <<>>)

\* C25 witness: after a cycle that scanned and traded, a cycle found no
\* market and the loop is in its 5-second sleep, still running, with the
\* counters of the first cycle.
C25_Witness ==
    /\ pc = "backoff_empty"
    /\ sleeping = RInt(5)
    /\ cycles = 2
    /\ running
    /\ stats.scans = 1
    /\ stats.trades_executed = 1
    /\ snapshots = <<>>

\* The counters after n cycles that each listed markets without arbitrage.
QuietStats(n) ==
    [scans |-> n, opportunities_found |-> 0, trades_executed |-> 0, total_profit |-> Zero]

\* The scans a long-running bot has completed when the model takes it up:
\* none, or one short of a multiple of 100.
StartScans == {0, StatsEvery - 1, 2 * StatsEvery - 1}

\* The bot at its loop test after initialize() and n quiet cycles, each of
\* which listed one market without arbitrage and slept scan_interval: scans
\* is n, one snapshot was logged at each multiple of 100 passed, and nothing
\* was placed or traded.
InitPeriodic ==
    /\ cfg \in {[client_kind |-> k, credentials |-> TRUE,
                 min_profit_pct |-> R(1, 100), fee_rate |-> R(2, 100),
                 max_position_size |-> RInt(1000), max_slippage_pct |-> R(2, 100),
                 scan_interval |-> R(1, 10)] : k \in {"paper", "mock"}}
    /\ balance = IF cfg.client_kind = "paper" THEN RInt(10000) ELSE RInt(1000)
    /\ pc = "loop_top"
    /\ components = [client |-> TRUE, detector |-> TRUE, executor |-> TRUE]
    /\ running = TRUE
    /\ \E n \in StartScans :
          /\ stats = QuietStats(n)
          /\ snapshots = [i \in 1..(n \div StatsEvery) |-> QuietStats(i * StatsEvery)]
          /\ markets = IF n = 0 THEN <<>>
                       ELSE <<[id |-> 3, yes_price |-> R(52, 100), no_price |-> R(46, 100)]>>
    /\ signals = 0
    /\ cycles = 0
    /\ orders = <<>>
    /\ executed_trades = <<>>
    /\ opportunities = <<>>
    /\ ex = NoLocals
    /\ calls = <<>>
    /\ entry = NoEntry
    /\ fault = "none"
    /\ trade_log = <<>>
    /\ sleeping = None
    /\ DetectorIdle

\* The steps of a bot whose loop has been entered.
NextPeriodic ==
    \/ LoopTop
    \/ GetMarkets
    \/ ScanMarkets
    \/ ExecGetBalance
    \/ ExecPlaceYes
    \/ ExecPlaceNo
    \/ ExecCheck
    \/ ExecCancelYes
    \/ ExecCancelNo
    \/ LoopResult
    \/ EndCycle
    \/ LoopExcept
    \/ Wake
    \/ Shutdown

SpecPeriodic == InitPeriodic /\ [][NextPeriodic]_vars

\* The cycle has incremented scans to a multiple of 100 and has not yet reached
\* the periodic log_stats.
SnapshotPending == (Executing \/ pc = "end_cycle") /\ stats.scans % StatsEvery = 0

\* C26: the loop logs one periodic snapshot for each positive multiple of 100
\* that scans reaches, in the cycle that incremented scans to it, and no
\* other: leaving aside the one snapshot each shutdown signal logs, the
\* snapshots logged so far are as many as the multiples of 100 up to scans,
\* less the one the current cycle is about to log; a snapshot is appended
\* only at the end of a cycle that scanned, with scans a positive multiple of
\* 100, and cycles that list no markets or raise log none.
C26_PeriodicSnapshotOncePerHundred ==
    /\ [](Len(snapshots) - signals =
              (stats.scans \div StatsEvery) - (IF SnapshotPending THEN 1 ELSE 0))
    /\ [](stats.scans = 0 /\ signals = 0 => snapshots = <<>>)
    /\ [][snapshots' # snapshots /\ signals' = signals =>
             /\ pc = "end_cycle"
             /\ stats.scans > 0
             /\ stats.scans % StatsEvery = 0
             /\ snapshots' = Append(snapshots, stats)]_vars
    /\ [][(pc \in {"get_markets", "loop_except", "backoff_empty", "backoff_error"}) =>
             (snapshots' = snapshots \/ signals' # signals)]_vars

\* C26 witness: the cycle that took scans from 99 to 100 logged the snapshot,
\* and the next cycle, which listed no market, logged none.
C26_Witness ==
    /\ pc = "backoff_empty"
    /\ cycles = 2
    /\ signals = 0
    /\ stats.scans = StatsEvery
    /\ Len(snapshots) = 1
    /\ snapshots[1].scans = StatsEvery

\* C26 witness: scans has reached 200 and the second periodic snapshot is
\* logged; the next cycle raised and logged none.
C26_WitnessSecondHundred ==
    /\ pc = "backoff_error"
    /\ cycles = 2
    /\ signals = 0
    /\ stats.scans = 2 * StatsEvery
    /\ Len(snapshots) = 2
    /\ snapshots[2].scans = 2 * StatsEvery

\* C26 witness: a bot that has scanned nothing yet went through two cycles
\* without markets and has logged nothing.
C26_WitnessNoScan ==
    /\ pc = "backoff_empty"
    /\ cycles = 2
    /\ signals = 0
    /\ stats.scans = 0
    /\ snapshots = <<>>

-----------------------------------------------------------------------------
(* The trade record and the order of the gateway calls (Spec)              *)

\* C27: when execute_arbitrage returns a trade record, its shares are the
\* position size divided by the opportunity's total_cost, its expected_profit
\* is the position size times the opportunity's profit_margin, yes_order_id
\* and no_order_id are the ids the first and the second place_order returned,
\* its status is "executed", and executed_trades has grown by that one
\* record; when it returns None, executed_trades is as long as it was; and
\* executed_trades only ever changes by the append of the record returned.
C27_TradeRecordContents ==
    /\ [](Returned /\ ex.result # None =>
             /\ BothLegsPlaced
             /\ LET position_size ==
                        calculate_position_size(ex.opportunity, calls[1].ret,
                                                cfg.max_position_size)
                IN  /\ ex.result.position_size = position_size
                    /\ ex.result.shares = RDiv(position_size, ex.opportunity.total_cost)
                    /\ ex.result.expected_profit =
                           RMul(position_size, ex.opportunity.profit_margin)
             /\ ex.result.yes_order_id = calls[2].ret.id
             /\ ex.result.no_order_id = calls[3].ret.id
             /\ ex.result.status = "executed"
             /\ Len(executed_trades) = entry.trades + 1
             /\ executed_trades[Len(executed_trades)] = ex.result)
    /\ [](Returned /\ ex.result = None => Len(executed_trades) = entry.trades)
    /\ [][executed_trades' # executed_trades =>
             /\ pc = "exec_check"
             /\ pc' = "loop_result"
             /\ executed_trades' = Append(executed_trades, ex'.result)]_vars

\* C27 witness: with a balance of 10000 the opportunity 0.50/0.44 was executed
\* on a position of 1000: 1000/0.94 shares, an expected profit of 41.2, the
\* first order's id as yes_order_id and the second's as no_order_id.
C27_Witness ==
    /\ Returned
    /\ ex.result # None
    /\ ex.result.position_size = RInt(1000)
    /\ ex.result.shares = R(50000, 47)
    /\ ex.result.expected_profit = R(412, 10)
    /\ ex.result.yes_order_id = 0
    /\ ex.result.no_order_id = 1
    /\ executed_trades = <<ex.result>>

\* C27 witness: execute_arbitrage returned None after a trade of an earlier
\* cycle, and executed_trades still holds that one record.
C27_WitnessNone ==
    /\ Returned
    /\ ex.result = None
    /\ entry.trades = 1
    /\ Len(executed_trades) = 1

\* The price execute_arbitrage offers for a leg quoted at the given price.
WithSlippage(quoted) == RMul(quoted, RAdd(One, cfg.max_slippage_pct))

\* The place_order call execute_arbitrage makes for a leg quoted at the given
\* price, as the call log records it.
IsLegCall(call, quoted) ==
    /\ call.op = "place_order"
    /\ call.market_id = ex.opportunity.market_id
    /\ call.side = "BUY"
    /\ call.price = WithSlippage(quoted)
    /\ call.size = RDiv(calculate_position_size(ex.opportunity, calls[1].ret,
                                                cfg.max_position_size),
                        ex.opportunity.total_cost)

-----------------------------------------------------------------------------
(* Independence of the markets of a scan (SpecDetect) and monotonicity of  *)
(* the position size (SpecSize)                                            *)

\* What detect_arbitrage returns on the i-th market of the scanned list,
\* taken alone.
Alone(i) == detect_arbitrage(dMarkets[i], dDetector.min_profit_pct, dDetector.fee_rate)

\* The markets of the scanned list on which detect_arbitrage, taken alone,
\* returns an opportunity.
Qualifying == {i \in 1..Len(dMarkets) : Alone(i) # None}

\* C29: scan_markets returns exactly one opportunity for each market of its
\* input on which detect_arbitrage returns one, whatever the other markets
\* and their order: every opportunity occurs in the output as often as there
\* are markets on which detect_arbitrage returns it (a market listed twice
\* gives two), and nothing else occurs.
C29_OneOpportunityPerQualifyingMarket ==
    /\ Len(dOut) = Cardinality(Qualifying)
    /\ \A i \in Qualifying :
          Cardinality({k \in 1..Len(dOut) : dOut[k] = Alone(i)})
             = Cardinality({j \in Qualifying : Alone(j) = Alone(i)})
    /\ \A k \in 1..Len(dOut) : \E i \in Qualifying : dOut[k] = Alone(i)

\* C29 witness: the same qualifying market listed twice gave two equal
\* opportunities.
C29_Witness ==
    /\ Len(dMarkets) = 2
    /\ dMarkets[1] = dMarkets[2]
    /\ Len(dOut) = 2
    /\ dOut[1] = dOut[2]

\* C29 witness: of two markets only the second qualifies, and the output is
\* the one opportunity detect_arbitrage returns on it.
C29_WitnessOneOfTwo ==
    /\ Len(dMarkets) = 2
    /\ Qualifying = {2}
    /\ dOut = <<Alone(2)>>

\* calculate_position_size on the maximum position size of the last call,
\* with another margin or another capital.
SizeAt(profit_margin, available_capital) ==
    calculate_position_size([profit_margin |-> profit_margin], available_capital,
                            dSize.max_position_size)

\* 10% of the capital, capped by max_position_size, times 1 + 10 * margin.
ScaledSize ==
    RMul(RMin(dSize.max_position_size, RMul(dSize.available_capital, R(1, 10))),
         RAdd(One, RMul(RInt(10), dSize.profit_margin)))

\* C30: calculate_position_size does not decrease when profit_margin grows
\* with capital and max_position_size fixed, nor when the available capital
\* grows with the margin fixed; the factor 1 + 10 * profit_margin is applied
\* as it is, and the result is the scaled size cut to max_position_size and
\* 20% of the capital and raised to 100.
C30_PositionSizeMonotone ==
    Sized =>
        /\ \A m \in GridMargins :
              RLe(dSize.profit_margin, m) =>
                  RLe(dSize.position_size, SizeAt(m, dSize.available_capital))
        /\ \A c \in GridCapitals :
              RLe(dSize.available_capital, c) =>
                  RLe(dSize.position_size, SizeAt(dSize.profit_margin, c))
        /\ dSize.position_size =
               RMax(RMin(RMin(ScaledSize, dSize.max_position_size), CapitalCap), Floor)

\* C30 witness: capital 5000, max 1000, margin 0.02 give 600; margin 0.05
\* gives 750 and capital 10000 gives 1000, both larger; at margin 0.50 the
\* scaled size is six times the base and the result is cut to 1000.
C30_Witness ==
    /\ Sized
    /\ dSize.available_capital = RInt(5000)
    /\ dSize.max_position_size = RInt(1000)
    /\ dSize.profit_margin = R(2, 100)
    /\ dSize.position_size = RInt(600)
    /\ SizeAt(R(5, 100), RInt(5000)) = RInt(750)
    /\ SizeAt(R(2, 100), RInt(10000)) = RInt(1000)
    /\ SizeAt(R(50, 100), RInt(5000)) = RInt(1000)

-----------------------------------------------------------------------------
(* The two thresholds of the Detector (SpecDetect)                         *)

\* The last market fed has two positive prices whose cost with fees is below
\* 0.99: it passes the guard of calculate_profit_margin.
PassedGuard ==
    /\ RLt(Zero, YesOf(LastMarket))
    /\ RLt(Zero, NoOf(LastMarket))
    /\ RLt(CostWithFees(LastMarket), R(99, 100))

\* C31: an opportunity detect_arbitrage returns has a profit_margin above 0.01
\* and at least min_profit_pct, and a total_cost strictly between 0 and 1;
\* with min_profit_pct at or below 0.01 every market that passes the guard of
\* calculate_profit_margin is returned, and the result is the one
\* min_profit_pct = 0.01 gives.
C31_BothThresholdsHold ==
    Fed =>
        /\ dRun.ret # None =>
              /\ RLt(R(1, 100), dRun.ret.profit_margin)
              /\ RLe(dDetector.min_profit_pct, dRun.ret.profit_margin)
              /\ RLt(Zero, dRun.ret.total_cost)
              /\ RLt(dRun.ret.total_cost, One)
        /\ RLe(dDetector.min_profit_pct, R(1, 100)) =>
              /\ PassedGuard <=> dRun.ret # None
              /\ dRun.ret = detect_arbitrage(LastMarket, R(1, 100), dDetector.fee_rate)

\* C31 witness: with min_profit_pct = 0 the market 0.52/0.46 at fee 0.02,
\* whose margin after fees would be 0.0004, is still refused.
C31_Witness ==
    /\ Fed
    /\ dDetector.min_profit_pct = Zero
    /\ dDetector.fee_rate = R(2, 100)
    /\ HasPrices(LastMarket, R(52, 100), R(46, 100))
    /\ dRun.margin_called
    /\ dRun.ret = None

\* C31 witness: with min_profit_pct = 0 the market 0.50/0.44 is returned with
\* the margin 0.0412.
C31_WitnessEmitted ==
    /\ Fed
    /\ dDetector.min_profit_pct = Zero
    /\ dDetector.fee_rate = R(2, 100)
    /\ HasPrices(LastMarket, R(50, 100), R(44, 100))
    /\ dRun.ret # None
    /\ dRun.ret.profit_margin = R(412, 10000)

-----------------------------------------------------------------------------
(* The counters, the paper ledger and the legs of an execution (Spec)      *)

\* C32: only the steps of the scan loop change the counters, and none of
\* scans, opportunities_found, trades_executed and total_profit ever
\* decreases; trades_executed never exceeds scans nor opportunities_found.
C32_CountersOnlyGrow ==
    /\ [](/\ stats.trades_executed <= stats.scans
          /\ stats.trades_executed <= stats.opportunities_found)
    /\ [][/\ stats'.scans >= stats.scans
          /\ stats'.opportunities_found >= stats.opportunities_found
          /\ stats'.trades_executed >= stats.trades_executed
          /\ RLe(stats.total_profit, stats'.total_profit)
          /\ stats' # stats => pc \in {"scan", "loop_result"} /\ signals' = signals]_vars

\* C32 witness: two cycles have each scanned, found one opportunity and
\* traded, and a shutdown signal has been delivered: the counters stand at 2,
\* 2 and 2 with a positive total_profit.
C32_Witness ==
    /\ pc = "stopped"
    /\ signals = 1
    /\ stats.scans = 2
    /\ stats.opportunities_found = 2
    /\ stats.trades_executed = 2
    /\ RLt(Zero, stats.total_profit)

\* The gateway is the PaperTradingClient.
Paper == cfg.client_kind = "paper"

\* What both legs of the current execute_arbitrage cost at their
\* slippage-inflated prices: position_size * (1 + max_slippage_pct), with the
\* position size taken on the balance get_balance returned.
LegsCost ==
    RMul(calculate_position_size(ex.opportunity, entry.balance, cfg.max_position_size),
         RAdd(One, cfg.max_slippage_pct))

\* C33: with the PaperTradingClient execute_arbitrage returns a trade record
\* exactly when the balance is at least 100 and position_size *
\* (1 + max_slippage_pct) does not exceed it; the balance is then lower by
\* exactly that amount, which is more than position_size.
C33_PaperTradeIffFunded ==
    Paper /\ Returned =>
        /\ ex.result # None <=>
              (~RLt(entry.balance, RInt(100)) /\ RLe(LegsCost, entry.balance))
        /\ ex.result # None =>
              /\ balance = RSub(entry.balance, LegsCost)
              /\ RLt(ex.result.position_size, LegsCost)

\* C33 witness: a balance of 100 passes the balance check, the position size
\* is 100 and the two legs would cost 102: execute_arbitrage returned None.
C33_Witness ==
    /\ Paper /\ Returned
    /\ entry.balance = RInt(100)
    /\ LegsCost = RInt(102)
    /\ Len(calls) >= 3
    /\ ex.result = None

\* C33 witness: with a balance of 10000 the legs of a position of 1000 cost
\* 1020 and the balance is 8980 after the trade.
C33_WitnessFunded ==
    /\ Paper /\ Returned
    /\ entry.balance = RInt(10000)
    /\ ex.result # None
    /\ LegsCost = RInt(1020)
    /\ balance = RInt(8980)

\* C34: when the YES leg's place_order returned None, execute_arbitrage still
\* makes the NO leg's place_order call as its next call; if that returns an
\* order, the order is cancelled; and execute_arbitrage returns None without
\* a trade record.
C34_NoLegPlacedAfterFailedYes ==
    /\ [](Returned /\ Len(calls) >= 2 /\ calls[2].ret = None =>
             /\ Len(calls) >= 3
             /\ IsLegCall(calls[3], ex.opportunity.no_price)
             /\ IsOrder(calls[3].ret) =>
                   /\ Len(calls) = 4
                   /\ calls[4].op = "cancel_order"
                   /\ calls[4].order_id = calls[3].ret.id
             /\ NoTradeRecorded)
    /\ [][(pc = "exec_place_yes" /\ pc' # pc /\ calls'[2].ret = None) =>
             pc' = "exec_place_no"]_vars

\* C34 witness: the PaperTradingClient, with a balance of 100, refused the YES
\* leg of 0.95/0.01 for lack of funds and accepted the NO leg, which was then
\* cancelled; execute_arbitrage returned None.
C34_Witness ==
    /\ Paper /\ Returned
    /\ entry.balance = RInt(100)
    /\ Len(calls) = 4
    /\ calls[2].ret = None
    /\ IsOrder(calls[3].ret)
    /\ calls[4].op = "cancel_order"
    /\ calls[4].order_id = calls[3].ret.id
    /\ ex.result = None

\* The last call of the call log after the step.
LastCall == calls'[Len(calls')]

\* C35: on the PaperTradingClient the balance is never negative and no step
\* raises it; the orders accepted have pairwise distinct ids and the balance
\* is the initial balance less the sum of their costs; a place_order whose
\* cost price * size exceeds the balance returns None and leaves balance and
\* orders as they were, an accepted one appends one order, with an id no
\* earlier order has, and debits exactly price * size; cancel_order changes
\* neither.
C35_PaperLedger ==
    /\ [](Paper =>
             /\ RLe(Zero, balance)
             /\ \A i \in 1..Len(orders) : \A j \in 1..Len(orders) :
                   i # j => orders[i].id # orders[j].id
             /\ RAdd(balance, SpentOnOrders(orders)) \in InitialBalances)
    /\ [][Paper =>
             /\ RLe(balance', balance)
             /\ (pc \in {"exec_place_yes", "exec_place_no"} /\ pc' # pc) =>
                   LET cost == RMul(LastCall.price, LastCall.size)
                   IN  IF RLt(balance, cost)
                       THEN /\ LastCall.ret = None
                            /\ balance' = balance
                            /\ orders' = orders
                       ELSE /\ IsOrder(LastCall.ret)
                            /\ orders' = Append(orders, LastCall.ret)
                            /\ \A i \in 1..Len(orders) : orders[i].id # LastCall.ret.id
                            /\ LastCall.ret.cost = cost
                            /\ balance' = RSub(balance, cost)
             /\ (pc \notin {"exec_place_yes", "exec_place_no"}) =>
                   balance' = balance /\ orders' = orders]_vars

\* C35 witness: four orders were accepted in two executions, with four
\* different ids, and paid for out of the initial 10000.
C35_Witness ==
    /\ Paper
    /\ Len(orders) = 4
    /\ Cardinality({orders[i].id : i \in 1..4}) = 4
    /\ RLt(balance, RInt(10000))
    /\ RAdd(balance, SpentOnOrders(orders)) = RInt(10000)

\* C35 witness: a leg that cost more than the balance left was refused and
\* then the accepted leg was cancelled; the balance stays lowered by the cost
\* of the accepted leg.
C35_WitnessRefused ==
    /\ Paper /\ Returned
    /\ Len(calls) = 4
    /\ IsOrder(calls[2].ret)
    /\ calls[3].ret = None
    /\ calls[4].op = "cancel_order"
    /\ balance = RSub(entry.balance, calls[2].ret.cost)
    /\ RLt(balance, RMul(calls[3].price, calls[3].size))

-----------------------------------------------------------------------------
(* The paper bot left running (SpecDrain): the loop iterates without bound, *)
(* and the venue lists markets in at most MaxCycles of the iterations       *)

\* while self.running (bot.py:127), with no bound on the iterations.
LoopTopUnbounded ==
    /\ pc = "loop_top"
    /\ pc' = IF LoopCondition THEN "get_markets" ELSE "stopped"
    /\ UNCHANGED <<cfg, trade_log, sleeping, components, running, stats, snapshots, signals,
                   cycles, balance, orders, executed_trades, markets, opportunities, ex,
                   calls, entry, fault, detVars>>

\* markets = self.client.get_markets(active=True); if not markets: the
\* 5-second backoff (bot.py:130-135).  The venue lists markets in at most
\* MaxCycles iterations and nothing in the others.
GetMarketsListed ==
    /\ pc = "get_markets"
    /\ \E listed \in GetMarketsOutcomes :
          /\ listed # <<>> => cycles < MaxCycles
          /\ cycles' = IF listed # <<>> THEN cycles + 1 ELSE cycles
          /\ markets' = listed
          /\ pc' = IF listed = <<>> THEN "backoff_empty" ELSE "scan"
          /\ sleeping' = IF listed = <<>> THEN EmptyBackoff ELSE sleeping
          /\ fault' = "none"
    /\ UNCHANGED <<cfg, trade_log, components, running, stats, snapshots, signals, balance,
                   orders, executed_trades, opportunities, ex, calls, entry, detVars>>

\* The bot in paper-trading mode.
InitDrain == Init /\ cfg.client_kind = "paper"

\* A step of the paper bot's thread: the PaperTradingClient raises nowhere,
\* so the loop's exception handler has no step.
ThreadDrain ==
    \/ Initialize
    \/ LoopTopUnbounded
    \/ GetMarketsListed
    \/ ScanMarkets
    \/ ExecGetBalance
    \/ ExecPlaceYes
    \/ ExecPlaceNo
    \/ ExecCheck
    \/ ExecCancelYes
    \/ ExecCancelNo
    \/ LoopResult
    \/ EndCycle
    \/ Wake

NextDrain ==
    \/ Initialize
    \/ LoopTopUnbounded
    \/ GetMarketsListed
    \/ ScanMarkets
    \/ ExecGetBalance
    \/ ExecPlaceYes
    \/ ExecPlaceNo
    \/ ExecCheck
    \/ ExecCancelYes
    \/ ExecCancelNo
    \/ LoopResult
    \/ EndCycle
    \/ Wake
    \/ Shutdown

SpecDrain == InitDrain /\ [][NextDrain]_vars /\ WF_vars(ThreadDrain)

\* What the two legs of the smallest position cost: 100 * (1 + max_slippage_pct).
CheapestTrade == RMul(RInt(100), RAdd(One, cfg.max_slippage_pct))

\* execute_arbitrage has placed the YES leg and has not yet returned to the
\* loop's counting of the trade.
TradeInFlight ==
    pc \in {"exec_place_no", "exec_check", "exec_cancel_yes", "exec_cancel_no", "loop_result"}

PriceInRange(price) == RLe(Zero, price) /\ RLe(price, One)

\* C37: for every opportunity detect_arbitrage returns with fee_rate 0.02,
\* the prices execute_arbitrage sends for the two legs under the default
\* max_slippage_pct 0.02, yes_price * 1.02 and no_price * 1.02, both lie
\* within [0, 1] (indeed below 0.99), so the live client's price validation
\* rejects neither leg.
C37_LegPricesInRange ==
    (/\ Fed
     /\ dRun.ret # None
     /\ dDetector.fee_rate = R(2, 100)
     /\ cfg.max_slippage_pct = R(2, 100)) =>
        /\ PriceInRange(LegPrice(dRun.ret.yes_price))
        /\ PriceInRange(LegPrice(dRun.ret.no_price))
        /\ RLt(LegPrice(dRun.ret.yes_price), R(99, 100))
        /\ RLt(LegPrice(dRun.ret.no_price), R(99, 100))
        /\ LegPrice(dRun.ret.yes_price) = RMul(YesOf(LastMarket), R(102, 100))
        /\ LegPrice(dRun.ret.no_price) = RMul(NoOf(LastMarket), R(102, 100))

\* C37 witness: the market quoted 0.96 / 0.01 is an opportunity at fee_rate
\* 0.02 (cost with fees 0.9894); its YES leg is sent at 0.9792.
C37_Witness ==
    /\ Fed
    /\ dDetector.fee_rate = R(2, 100)
    /\ cfg.max_slippage_pct = R(2, 100)
    /\ HasPrices(LastMarket, R(96, 100), R(1, 100))
    /\ dRun.ret # None
    /\ LegPrice(dRun.ret.yes_price) = R(9792, 10000)
    /\ LegPrice(dRun.ret.no_price) = R(102, 10000)

=============================================================================
